---- MODULE Spec2Model ----
(***************************************************************************)
(* Model of aca_pricing_dashboard.py: the pricing formula                  *)
(* (get_real_pricing), the market table (get_market_data) behind its       *)
(* 300 s cache, the market comparison of render_pricing_calculator and the *)
(* session state of the dashboard.                                         *)
(*                                                                         *)
(* Numbers are exact fixed-point integers:                                 *)
(*   rates        in 1/RateScale  of a percentage point (5.99 -> 1198),    *)
(*   dti          in tenths of a percent                (18.0 -> 180),     *)
(*   risk         in hundredths                         (0.15 -> 15),      *)
(*   money        in 1/MoneyScale of a dollar           (300  -> 1500000), *)
(*   loan_amnt and annual_inc in dollars, time in seconds.                 *)
(* Ratios (profit_margin, percentile, mean) are reduced fractions.         *)
(* The rounding error of Python's binary floats is not modelled.           *)
(***************************************************************************)
EXTENDS Integers, Sequences, FiniteSets, TLC

VARIABLES
    args,           \* SpecPrice: the arguments of one get_real_pricing call
    ret,            \* SpecPrice: what that call returned
    query,          \* SpecStats: loan type and rate of one market comparison
    position,       \* SpecStats: what the market comparison displayed
    now,            \* datetime.now() / time.time(), in seconds
    page,           \* the sidebar selectbox of main
    loan_amount,    \* the four input widgets of render_pricing_calculator
    annual_income,
    debt_to_income,
    credit_grade,
    session_state,  \* st.session_state: pricing_result and input_params
    pricing_cache,  \* st.cache_data of get_real_pricing
    market_cache,   \* st.cache_data of get_market_data
    market_data,    \* the frame the last script run got from get_market_data
    health,         \* the dict the last script run got from get_system_health
    calcs           \* number of Calculate clicks so far (bounded)

vars == <<args, ret, query, position, now, page, loan_amount, annual_income,
          debt_to_income, credit_grade, session_state, pricing_cache,
          market_cache, market_data, health, calcs>>

priceVars == <<args, ret>>
statsVars == <<query, position>>
uiVars == <<now, page, loan_amount, annual_income, debt_to_income,
            credit_grade, session_state, pricing_cache, market_cache,
            market_data, health, calcs>>

-----------------------------------------------------------------------------
(* Units *)

RateScale == 200
MoneyScale == 5000

\* w.hh percent as a rate, e.g. Pct(5, 99) is 5.99
Pct(w, hh) == ((w * 100 + hh) * RateScale) \div 100

Max(a, b) == IF a >= b THEN a ELSE b
Min(a, b) == IF a <= b THEN a ELSE b
Abs(a) == IF a < 0 THEN -a ELSE a

RECURSIVE GCD(_, _)
GCD(a, b) == IF b = 0 THEN a ELSE GCD(b, a % b)

\* the exact quotient n / d (d # 0) as a reduced fraction with den > 0
Ratio(n, d) ==
    LET g == GCD(Abs(n), Abs(d))
        s == IF d < 0 THEN -1 ELSE 1
    IN  [num |-> (s * n) \div g, den |-> (s * d) \div g]

None == [kind |-> "None"]

-----------------------------------------------------------------------------
(* get_real_pricing *)

\* mutant: the grade step subtracted instead of added
base_rate_descending(grade_num) == Pct(8, 0) - (grade_num - 1) * Pct(2, 0)

base_rate(grade_num) == Pct(8, 0) + (grade_num - 1) * Pct(2, 0)

\* (dti - 20) * 0.05 points: one rate unit per tenth of a percent
dti_adj(dti) == Max(0, dti - 200)

\* (60000 - annual_inc) / 100000 points, clamped to [-0.5, 0.5]
income_adj(annual_inc) ==
    Max(-Pct(0, 50), Min(Pct(0, 50), (60000 - annual_inc) \div (100000 \div RateScale)))

\* mutant: the [5.99, 29.99] clamp left out
final_rate_unclamped(annual_inc, dti, grade_num) ==
    base_rate(grade_num) + dti_adj(dti) + income_adj(annual_inc)

final_rate(annual_inc, dti, grade_num) ==
    Max(Pct(5, 99), Min(Pct(29, 99),
        base_rate(grade_num) + dti_adj(dti) + income_adj(annual_inc)))

risk_score(grade_num) == Min(40, Max(2, 5 + (grade_num - 1) * 5))

\* loan_amnt * (final_rate / 100) * 4, in 1/MoneyScale dollars
revenue(loan_amnt, rate) == loan_amnt * rate

\* mutant: the fixed 300 origination cost left out
costs_no_origination(loan_amnt, risk) ==
    risk * loan_amnt * 25 + loan_amnt * 500

\* risk_score * loan_amnt * 0.5 + 300 + loan_amnt * 0.025 * 4
costs(loan_amnt, risk) ==
    risk * loan_amnt * 25 + 300 * MoneyScale + loan_amnt * 500

\* mutant: strict comparisons at the tier boundaries
risk_tier_strict(grade_num) ==
    IF grade_num < 2 THEN "Prime"
    ELSE IF grade_num < 4 THEN "Near Prime" ELSE "Subprime"

risk_tier(grade_num) ==
    IF grade_num <= 2 THEN "Prime"
    ELSE IF grade_num <= 4 THEN "Near Prime" ELSE "Subprime"

\* the body of get_real_pricing; profit / loan_amnt raises ZeroDivisionError
\* for loan_amnt = 0, which the except clause turns into st.error and None
get_real_pricing(loan_amnt, annual_inc, dti, grade_num) ==
    LET rate == final_rate(annual_inc, dti, grade_num)
        risk == risk_score(grade_num)
        profit == revenue(loan_amnt, rate) - costs(loan_amnt, risk)
    IN  IF loan_amnt = 0
        THEN [kind |-> "None", error |-> "Pricing calculation error"]
        ELSE [kind |-> "result",
              apr |-> rate,
              risk_probability |-> risk,
              expected_profit |-> profit,
              profit_margin |-> Ratio(profit, MoneyScale * loan_amnt),
              confidence |-> "High",
              optimization_applied |-> "Enhanced_Model",
              risk_tier |-> risk_tier(grade_num)]

-----------------------------------------------------------------------------
(* get_market_data and get_system_health *)

\* mutant: the 30yr_treasury row left out
market_rates_short == <<
    [source |-> "Bankrate", rate |-> Pct(10, 0), loan_type |-> "auto_loan"],
    [source |-> "Bankrate", rate |-> Pct(6, 49), loan_type |-> "auto_loan"],
    [source |-> "Bankrate", rate |-> Pct(15, 29), loan_type |-> "auto_loan"],
    [source |-> "Bankrate", rate |-> Pct(14, 7), loan_type |-> "auto_loan"],
    [source |-> "Bankrate", rate |-> Pct(16, 20), loan_type |-> "auto_loan"],
    [source |-> "Bankrate", rate |-> Pct(4, 67), loan_type |-> "auto_loan"],
    [source |-> "Bankrate", rate |-> Pct(5, 99), loan_type |-> "auto_loan"],
    [source |-> "Bankrate", rate |-> Pct(12, 50), loan_type |-> "auto_loan"],
    [source |-> "Yahoo_Finance", rate |-> Pct(4, 26), loan_type |-> "10yr_treasury"],
    [source |-> "Yahoo_Finance", rate |-> Pct(3, 81), loan_type |-> "5yr_treasury"] >>

market_rates == <<
    [source |-> "Bankrate", rate |-> Pct(10, 0), loan_type |-> "auto_loan"],
    [source |-> "Bankrate", rate |-> Pct(6, 49), loan_type |-> "auto_loan"],
    [source |-> "Bankrate", rate |-> Pct(15, 29), loan_type |-> "auto_loan"],
    [source |-> "Bankrate", rate |-> Pct(14, 7), loan_type |-> "auto_loan"],
    [source |-> "Bankrate", rate |-> Pct(16, 20), loan_type |-> "auto_loan"],
    [source |-> "Bankrate", rate |-> Pct(4, 67), loan_type |-> "auto_loan"],
    [source |-> "Bankrate", rate |-> Pct(5, 99), loan_type |-> "auto_loan"],
    [source |-> "Bankrate", rate |-> Pct(12, 50), loan_type |-> "auto_loan"],
    [source |-> "Yahoo_Finance", rate |-> Pct(4, 26), loan_type |-> "10yr_treasury"],
    [source |-> "Yahoo_Finance", rate |-> Pct(3, 81), loan_type |-> "5yr_treasury"],
    [source |-> "Yahoo_Finance", rate |-> Pct(4, 82), loan_type |-> "30yr_treasury"] >>

SecondsPerDay == 86400

\* the body of get_market_data, run at time t
get_market_data(t) ==
    [kind |-> "frame", rows |-> market_rates,
     date |-> t \div SecondsPerDay, timestamp |-> t]

get_system_health(t) ==
    [kind |-> "health", overall_health |-> 100, api_status |-> "Operational",
     market_data_age |-> 0, total_rates |-> 11, data_sources |-> 2,
     last_update |-> t]

\* @st.cache_data(ttl=300): an entry is served while it is younger than ttl
ttl == 300

\* mutant: an entry exactly ttl old still served
Fresh_inclusive(entry, t) == t - entry.at <= ttl

Fresh(entry, t) == t - entry.at < ttl

\* the cache of get_market_data after a call at time t; the call returns
\* the value of the entry
cached_market_data(cache, t) ==
    IF cache.kind = "entry" /\ Fresh(cache, t)
    THEN cache
    ELSE [kind |-> "entry", value |-> get_market_data(t), at |-> t]

\* the cache of get_real_pricing after a call with arguments key at time t:
\* expired entries are dropped, a missing entry is computed and stored
cached_real_pricing(cache, key, t) ==
    LET live == {e \in cache : Fresh(e, t)}
    IN  IF \E e \in live : e.key = key
        THEN live
        ELSE live \cup {[key |-> key, at |-> t,
                         value |-> get_real_pricing(key[1], key[2], key[3], key[4])]}

CachedValue(cache, key) == (CHOOSE e \in cache : e.key = key).value

-----------------------------------------------------------------------------
(* the market comparison of render_pricing_calculator *)

NaN == [kind |-> "NaN"]

RECURSIVE SumRates(_)
SumRates(rows) ==
    IF rows = <<>> THEN 0 ELSE Head(rows).rate + SumRates(Tail(rows))

\* Series.mean(): NaN over an empty series
mean(rows) ==
    IF rows = <<>> THEN NaN ELSE Ratio(SumRates(rows), Len(rows))

\* mutant: < in place of <=
percentile_rank_strict(rows, apr) ==
    Ratio(100 * Cardinality({i \in 1..Len(rows) : rows[i].rate < apr}),
          Len(rows))

\* (auto_rates <= apr).mean() * 100
percentile_rank(rows, apr) ==
    Ratio(100 * Cardinality({i \in 1..Len(rows) : rows[i].rate <= apr}),
          Len(rows))

position_label(percentile) ==
    IF percentile.num <= 25 * percentile.den THEN "Very Competitive"
    ELSE IF percentile.num <= 50 * percentile.den THEN "Competitive"
    ELSE IF percentile.num <= 75 * percentile.den THEN "Market Rate"
    ELSE "Premium"

\* what the "Market Position" block shows for the rows of one loan type
market_position(rows, loan_type, apr) ==
    LET auto_rates == SelectSeq(rows, LAMBDA r : r.loan_type = loan_type)
        market_avg == mean(auto_rates)
    IN  IF auto_rates # <<>>
        THEN LET percentile == percentile_rank(auto_rates, apr)
             IN  [kind |-> "shown",
                  market_avg |-> market_avg,
                  position |-> position_label(percentile),
                  percentile |-> percentile,
                  rate_vs_market |->
                      Ratio(apr * Len(auto_rates) - SumRates(auto_rates),
                            Len(auto_rates))]
        ELSE [kind |-> "blank", market_avg |-> market_avg]

-----------------------------------------------------------------------------
(* Spec: the dashboard, one action per UI event and the script run it starts *)

MaxClock == 300
TickStep == 299
MaxCalcs == 2

Pages == {"exec", "pricing", "market", "status"}
LoanChoices == {25000, 50000}
IncomeChoices == {65000, 15000}
DtiChoices == {180, 500}
GradeChoices == {3, 7}

NoSession == [pricing_result |-> None, input_params |-> None]

\* the page routed to by main, rendered at time t
Render(pg, session, cache, t) ==
    LET shows == pg \in {"exec", "market"}
                 \/ (pg = "pricing" /\ session.pricing_result.kind = "result")
        cache2 == IF shows THEN cached_market_data(cache, t) ELSE cache
    IN  /\ market_cache' = cache2
        /\ market_data' = IF shows THEN cache2.value ELSE None
        /\ position' = IF pg = "pricing" /\ shows
                       THEN market_position(cache2.value.rows, "auto_loan",
                                            session.pricing_result.apr)
                       ELSE None
        /\ health' = IF pg = "status" THEN get_system_health(t) ELSE None

Idle ==
    /\ now = 0 /\ page = "exec"
    /\ loan_amount = 25000 /\ annual_income = 65000
    /\ debt_to_income = 180 /\ credit_grade = 3
    /\ session_state = NoSession
    /\ pricing_cache = {} /\ market_cache = None
    /\ market_data = None /\ health = None /\ calcs = 0

\* the state after the first script run, at time 0
Init ==
    /\ args = None /\ ret = None /\ query = None
    /\ now = 0 /\ page = "exec"
    /\ loan_amount = 25000 /\ annual_income = 65000
    /\ debt_to_income = 180 /\ credit_grade = 3
    /\ session_state = NoSession
    /\ pricing_cache = {}
    /\ market_cache = cached_market_data(None, 0)
    /\ market_data = get_market_data(0)
    /\ position = None /\ health = None /\ calcs = 0

Tick ==
    /\ now + TickStep <= MaxClock
    /\ now' = now + TickStep
    /\ UNCHANGED <<args, ret, query, position, page, loan_amount,
                   annual_income, debt_to_income, credit_grade, session_state,
                   pricing_cache, market_cache, market_data, health, calcs>>

\* widgets that a run does not render lose their state and restart at their
\* defaults
SelectPage(p) ==
    /\ p # page
    /\ page' = p
    /\ loan_amount' = 25000 /\ annual_income' = 65000
    /\ debt_to_income' = 180 /\ credit_grade' = 3
    /\ Render(p, session_state, market_cache, now)
    /\ UNCHANGED <<args, ret, query, now, session_state, pricing_cache, calcs>>

SetLoanAmount(v) ==
    /\ page = "pricing" /\ v # loan_amount
    /\ loan_amount' = v
    /\ Render(page, session_state, market_cache, now)
    /\ UNCHANGED <<args, ret, query, now, page, annual_income, debt_to_income,
                   credit_grade, session_state, pricing_cache, calcs>>

SetAnnualIncome(v) ==
    /\ page = "pricing" /\ v # annual_income
    /\ annual_income' = v
    /\ Render(page, session_state, market_cache, now)
    /\ UNCHANGED <<args, ret, query, now, page, loan_amount, debt_to_income,
                   credit_grade, session_state, pricing_cache, calcs>>

SetDebtToIncome(v) ==
    /\ page = "pricing" /\ v # debt_to_income
    /\ debt_to_income' = v
    /\ Render(page, session_state, market_cache, now)
    /\ UNCHANGED <<args, ret, query, now, page, loan_amount, annual_income,
                   credit_grade, session_state, pricing_cache, calcs>>

\* mutant: input_params stored on every run, outside the button's block
SetCreditGrade_stores_params(v) ==
    /\ page = "pricing" /\ v # credit_grade
    /\ credit_grade' = v
    /\ session_state' =
          [session_state EXCEPT !.input_params =
              [kind |-> "params", loan_amount |-> loan_amount,
               annual_income |-> annual_income,
               debt_to_income |-> debt_to_income, credit_grade |-> v]]
    /\ Render(page, session_state, market_cache, now)
    /\ UNCHANGED <<args, ret, query, now, page, loan_amount, annual_income,
                   debt_to_income, pricing_cache, calcs>>

SetCreditGrade(v) ==
    /\ page = "pricing" /\ v # credit_grade
    /\ credit_grade' = v
    /\ Render(page, session_state, market_cache, now)
    /\ UNCHANGED <<args, ret, query, now, page, loan_amount, annual_income,
                   debt_to_income, session_state, pricing_cache, calcs>>

\* the "Calculate Pricing" button: time.sleep(1), the cached pricing call,
\* the two session entries, then the results column
Calculate ==
    /\ page = "pricing"
    /\ calcs < MaxCalcs /\ now + 1 <= MaxClock
    /\ LET t == now + 1
           key == <<loan_amount, annual_income, debt_to_income, credit_grade>>
           cache2 == cached_real_pricing(pricing_cache, key, t)
           session == [pricing_result |-> CachedValue(cache2, key),
                       input_params |->
                           [kind |-> "params",
                            loan_amount |-> loan_amount,
                            annual_income |-> annual_income,
                            debt_to_income |-> debt_to_income,
                            credit_grade |-> credit_grade]]
       IN  /\ now' = t
           /\ pricing_cache' = cache2
           /\ session_state' = session
           /\ Render(page, session, market_cache, t)
    /\ calcs' = calcs + 1
    /\ UNCHANGED <<args, ret, query, page, loan_amount, annual_income,
                   debt_to_income, credit_grade>>

\* the "Refresh Data" button: st.cache_data.clear(), then a rerun
RefreshData ==
    /\ pricing_cache' = {}
    /\ Render(page, session_state, None, now)
    /\ UNCHANGED <<args, ret, query, now, page, loan_amount, annual_income,
                   debt_to_income, credit_grade, session_state, calcs>>

Next ==
    \/ Tick
    \/ \E p \in Pages : SelectPage(p)
    \/ \E v \in LoanChoices : SetLoanAmount(v)
    \/ \E v \in IncomeChoices : SetAnnualIncome(v)
    \/ \E v \in DtiChoices : SetDebtToIncome(v)
    \/ \E v \in GradeChoices : SetCreditGrade(v)
    \/ Calculate
    \/ RefreshData

Spec == Init /\ [][Next]_vars

-----------------------------------------------------------------------------
(* SpecStats: the market comparison as a function of loan type and rate *)

MaxRateW == 20

TypeInputs ==
    {"auto_loan", "10yr_treasury", "5yr_treasury", "30yr_treasury",
     "personal_loan"}
RateInputs == {Pct(w, hh) : w \in 0..MaxRateW, hh \in {0, 95, 99}}

InitStats ==
    /\ query \in [loan_type : TypeInputs, rate : RateInputs]
    /\ position = [kind |-> "pending"]
    /\ args = None /\ ret = None
    /\ Idle

Compare ==
    /\ position.kind = "pending"
    /\ position' = market_position(get_market_data(now).rows, query.loan_type,
                                   query.rate)
    /\ UNCHANGED <<args, ret, query, uiVars>>

NextStats == Compare

SpecStats == InitStats /\ [][NextStats]_vars

-----------------------------------------------------------------------------
(* SpecPrice: get_real_pricing as a function of its arguments *)

GradeMargin == 3
MaxLoanK == 10

GradeInputs == (1 - GradeMargin)..(7 + GradeMargin)
LoanInputs == {5000 * k : k \in -1..MaxLoanK}
IncomeInputs == {-1000000, 0, 15000, 60000, 65000, 300000, 10000000}
DtiInputs == {-1000, 0, 180, 200, 250, 500, 3000}

InitPrice ==
    /\ args \in [loan_amnt : LoanInputs, annual_inc : IncomeInputs,
                 dti : DtiInputs, grade_num : GradeInputs]
    /\ ret = [kind |-> "pending"]
    /\ query = None /\ position = None
    /\ Idle

Price ==
    /\ ret.kind = "pending"
    /\ ret' = get_real_pricing(args.loan_amnt, args.annual_inc, args.dti,
                               args.grade_num)
    /\ UNCHANGED <<args, statsVars, uiVars>>

NextPrice == Price

SpecPrice == InitPrice /\ [][NextPrice]_vars

\* C1: whenever get_real_pricing returns a result, its apr lies in
\* [5.99, 29.99] and its risk_probability in [0.02, 0.40], whatever the grade,
\* the DTI and the income were.
AprAndRiskBounded_C1 ==
    ret.kind = "result" =>
        /\ 1198 <= ret.apr /\ ret.apr <= 5998
        /\ 2 <= ret.risk_probability /\ ret.risk_probability <= 40

\* a result for a grade below 1 and a negative DTI, where both clamps acted
W_C1 ==
    /\ ret.kind = "result"
    /\ args.grade_num < 1 /\ args.dti < 0 /\ args.annual_inc = 10000000
    /\ ret.apr = 1198 /\ ret.risk_probability = 2

InvalidInput(a) ==
    \/ a.grade_num < 1 \/ a.grade_num > 7
    \/ a.loan_amnt <= 0
    \/ a.annual_inc <= 0

\* C2: get_real_pricing fails with InvalidInputError, and returns no result,
\* whenever the grade is outside 1..7 or the loan amount or the income is not
\* positive.
RejectsInvalidInput_C2 ==
    (ret.kind # "pending" /\ InvalidInput(args)) => ret.kind = "InvalidInputError"

TierOf(g) ==
    CASE g \in {1, 2} -> "Prime"
      [] g \in {3, 4} -> "Near Prime"
      [] g \in {5, 6, 7} -> "Subprime"

AprAt(g) ==
    get_real_pricing(args.loan_amnt, args.annual_inc, args.dti, g).apr

\* C6: with the other arguments fixed, the apr returned for a grade of 1..7 is
\* at most the apr of every higher grade and at least that of every lower one.
AprMonotoneInGrade_C6 ==
    (ret.kind = "result" /\ args.grade_num \in 1..7) =>
        \A g \in 1..7 :
            /\ g > args.grade_num => ret.apr <= AprAt(g)
            /\ g < args.grade_num => AprAt(g) <= ret.apr

\* a grade below 7 whose apr is already clamped to 29.99
W_C6 ==
    /\ ret.kind = "result" /\ args.grade_num = 6
    /\ ret.apr = 5998 /\ AprAt(7) = 5998

Clamp(x, lo, hi) == IF x < lo THEN lo ELSE IF x > hi THEN hi ELSE x

\* the formula of the specification, in apr units of 0.005 points and money
\* units of 1/5000 dollar
RefApr(a) ==
    Clamp(1600 + (a.grade_num - 1) * 400
          + (IF a.dti > 200 THEN a.dti - 200 ELSE 0)
          + Clamp((60000 - a.annual_inc) \div 500, -100, 100),
          1198, 5998)
RefRisk(a) == Clamp(5 * a.grade_num, 2, 40)
RefProfit(a) ==
    a.loan_amnt * RefApr(a)
    - (RefRisk(a) * a.loan_amnt * 25 + 1500000 + a.loan_amnt * 500)

ExampleArgs ==
    [loan_amnt |-> 25000, annual_inc |-> 65000, dti |-> 180, grade_num |-> 3]

-----------------------------------------------------------------------------
(* Claims about the market comparison, under SpecStats *)

RowsOfType(t) == SelectSeq(market_rates, LAMBDA r : r.loan_type = t)

AtOrBelow(t, r) ==
    Cardinality({i \in 1..Len(RowsOfType(t)) : RowsOfType(t)[i].rate <= r})

\* C8: the percentile rank is 100 * (observations with rate <= r) / (number
\* of observations), lies in [0, 100], and is 50.0 (4 of 8) for r = 11.95
\* over the auto_loan rows.
PercentileRank_C8 ==
    position.kind = "shown" =>
        LET pr == position.percentile
            n == Len(RowsOfType(query.loan_type))
            k == AtOrBelow(query.loan_type, query.rate)
        IN  /\ pr.den > 0
            /\ pr.num * n = 100 * k * pr.den
            /\ 0 <= pr.num /\ pr.num <= 100 * pr.den
            /\ query = [loan_type |-> "auto_loan", rate |-> 2390] =>
                  /\ n = 8 /\ k = 4
                  /\ pr = [num |-> 50, den |-> 1]

W_C8 ==
    /\ position.kind = "shown"
    /\ query = [loan_type |-> "auto_loan", rate |-> 2390]
    /\ position.percentile = [num |-> 50, den |-> 1]
    /\ position.position = "Competitive"

-----------------------------------------------------------------------------
(* Claims about the dashboard, under Spec *)

Sources(rows) == {rows[i].source : i \in 1..Len(rows)}
LoanTypes(rows) == {rows[i].loan_type : i \in 1..Len(rows)}
Hundredths(rows) == [i \in 1..Len(rows) |-> (rows[i].rate * 100) \div RateScale]

\* C4 as stated: 11 observations, two sources, three loan types
SnapshotThreeTypes_C4 ==
    market_data.kind = "frame" =>
        /\ Len(market_data.rows) = 11
        /\ Cardinality(Sources(market_data.rows)) = 2
        /\ Cardinality(LoanTypes(market_data.rows)) = 3

\* C4: every frame a run gets from get_market_data holds the same 11
\* observations, from two sources and of four loan types (auto_loan and three
\* treasury maturities), whatever calls, expiries and refreshes came before.
SnapshotFixed_C4 ==
    market_data.kind = "frame" =>
        /\ Len(market_data.rows) = 11
        /\ Sources(market_data.rows) = {"Bankrate", "Yahoo_Finance"}
        /\ LoanTypes(market_data.rows) =
              {"auto_loan", "10yr_treasury", "5yr_treasury", "30yr_treasury"}
        /\ Cardinality(LoanTypes(market_data.rows)) = 4
        /\ Hundredths(market_data.rows) =
              <<1000, 649, 1529, 1407, 1620, 467, 599, 1250, 426, 381, 482>>
        /\ \A i \in 1..11 :
              market_data.rows[i].loan_type = "auto_loan" <=> i <= 8

\* a frame captured again after the first one expired
W_C4 ==
    /\ market_data.kind = "frame" /\ market_data.timestamp = 300
    /\ page = "market"

\* a script run happened: every UI event changes more than the clock
Ran ==
    <<page, loan_amount, annual_income, debt_to_income, credit_grade,
      session_state, pricing_cache, market_cache, market_data, health,
      position, calcs>>' #
    <<page, loan_amount, annual_income, debt_to_income, credit_grade,
      session_state, pricing_cache, market_cache, market_data, health,
      position, calcs>>

\* C9 as stated: the frame a run gets carries the time of that run
AlwaysFreshTimestamp_C9 ==
    [][(Ran /\ market_data'.kind = "frame") =>
            market_data'.timestamp = now']_vars

\* C9: the frame a run gets carries the time of the call that filled the
\* cache: the time of this run when the cache was cleared by Refresh Data,
\* empty, or 300 s old or older; otherwise the time of the earlier call that
\* filled it, less than 300 s before this run.
CaptureTimestamp_C9 ==
    [][(Ran /\ market_data'.kind = "frame") =>
            IF RefreshData \/ market_cache.kind # "entry"
               \/ now' - market_cache.at >= 300
            THEN market_data'.timestamp = now'
            ELSE /\ market_data'.timestamp = market_cache.at
                 /\ market_data'.timestamp <= now'
                 /\ now' - market_data'.timestamp < 300]_vars

\* the run of a Calculate click at time 1 was served the frame captured at 0
W_C9 ==
    /\ now = 1 /\ calcs = 1 /\ page = "pricing"
    /\ market_data.kind = "frame" /\ market_data.timestamp = 0
    /\ position.kind = "shown"

StoredConsistent ==
    session_state.pricing_result.kind = "result" =>
        /\ session_state.input_params.kind = "params"
        /\ session_state.pricing_result =
              get_real_pricing(session_state.input_params.loan_amount,
                               session_state.input_params.annual_income,
                               session_state.input_params.debt_to_income,
                               session_state.input_params.credit_grade)

WidgetChanged ==
    /\ page' = page
    /\ <<loan_amount, annual_income, debt_to_income, credit_grade>>' #
       <<loan_amount, annual_income, debt_to_income, credit_grade>>

\* C10: a stored pricing_result always comes with input_params and is the
\* pricing of those params; changing a widget leaves both as they were.
SessionConsistent_C10 ==
    /\ []StoredConsistent
    /\ [][WidgetChanged => session_state' = session_state]_vars

\* a result is stored and the widgets have moved away from its params
W_C10 ==
    /\ session_state.pricing_result.kind = "result"
    /\ session_state.input_params.credit_grade = 3
    /\ credit_grade = 7 /\ loan_amount = 50000
    /\ page = "pricing"

====
